---- MODULE Spec2Model ----
(***************************************************************************)
(* Match lifecycle and result engine of xyz-football-api.                 *)
(*                                                                         *)
(* The persisted state is the rows of the teams, players, matches and      *)
(* goals tables that GORM queries can see (a soft-deleted row is hidden    *)
(* from every query of the repositories, so it is not kept).  A request    *)
(* is received (Call), handled by its HTTP handler in one step (the        *)
(* handler binds the body and runs the service method to its end), and     *)
(* answered (Respond).  Requests are handled one at a time.                *)
(***************************************************************************)
EXTENDS Integers, Sequences, FiniteSets, TLC

\* ---- bounds of the model ------------------------------------------------
NumTeams == 3
NumPlayers == 3
MaxMatches == 1
MaxGoals == 2
MaxMinute == 2
MaxDate == 2
MaxTime == 1
MaxJersey == 2
MaxScore == 9
MaxReportMatches == 2
MaxReportTeams == 2
MaxReportGoals == 3
MaxPage == 2
MaxReqPerPage == 2
MaxCalls == 2
MaxTokens == 3
DefaultPerPage == 10
MaxPerPage == 100

TeamIds == 1..NumTeams
PlayerIds == 1..NumPlayers
MatchIds == 1..MaxMatches
\* ids a request can carry: id 0 is a well-formed uuid that names no row
ReqTeamIds == 0..NumTeams
ReqPlayerIds == 0..NumPlayers
\* minutes a request can carry: 0 stands for every minute below 1
Minutes == 0..MaxMinute
Dates == 1..MaxDate
Times == 1..MaxTime

VARIABLES teams, players, matches, goals, refreshTokens, pc, req, resp

vars == <<teams, players, matches, goals, refreshTokens, pc, req, resp>>

\* ---- rows ----------------------------------------------------------------
\* the team a player row was created for (player p of team ((p-1) mod n)+1)
TeamOfPlayer(p) == ((p - 1) % NumTeams) + 1

NoMatch == [home |-> 0, away |-> 0, date |-> 0, time |-> 0,
            homeScore |-> 0, awayScore |-> 0, status |-> "none"]

\* the refresh_tokens table: per token string, whether it was never generated,
\* is stored and valid, is stored and past its ExpiresAt, or was hard-deleted
TokenIds == 1..MaxTokens

NoTokens == [t \in TokenIds |-> "none"]

GoalInputs == [player : ReqPlayerIds, team : TeamIds, minute : Minutes]

SeqsUpTo(S, n) == UNION {[1..k -> S] : k \in 0..n}

GoalLists == SeqsUpTo(GoalInputs, MaxGoals)

NoReq == [op |-> "none", id |-> 0, home |-> 0, away |-> 0, date |-> 0, time |-> 0,
          goals |-> <<>>]

NoResp == [err |-> "none", pos |-> 0, lookups |-> 0]

\* ---- repositories --------------------------------------------------------
\* teamRepository.FindByID: the row, unless absent or soft-deleted
TeamFound(t) == t \in DOMAIN teams /\ ~teams[t].deleted

\* playerRepository.FindByID
PlayerFound(p) == p \in DOMAIN players /\ ~players[p].deleted

\* matchRepository.FindByID
MatchFound(m) == m \in DOMAIN matches /\ matches[m].status # "none"

\* goalRepository.FindByMatchID without the ordering: the rows of one match
GoalsOf(table, m) == SelectSeq(table, LAMBDA g : g.match = m)

\* DeleteByMatchID that deletes nothing
DeleteByMatchID_keepsRows(table, m) == table

\* goalRepository.DeleteByMatchID: hides every row of the match
DeleteByMatchID(table, m) == SelectSeq(table, LAMBDA g : g.match # m)

\* goalRepository.CreateBatch: one row per element, in order
CreateBatch(table, rows) == table \o rows

\* ---- matchService.processResult ------------------------------------------
\* the loop with the two counters exchanged: a goal of the home team is
\* counted for the away team
RECURSIVE validateGoals_swappedCounters(_, _, _, _, _)
validateGoals_swappedCounters(match, G, i, homeScore, awayScore) ==
    IF i > Len(G)
    THEN [err |-> "ok", pos |-> 0, lookups |-> Len(G),
          homeScore |-> homeScore, awayScore |-> awayScore]
    ELSE LET g == G[i]
             fail(e, n) == [err |-> e, pos |-> i, lookups |-> n,
                            homeScore |-> homeScore, awayScore |-> awayScore]
         IN  IF g.team # match.home /\ g.team # match.away
             THEN fail("TeamNotInMatch", i - 1)
             ELSE IF ~PlayerFound(g.player)
             THEN fail("PlayerNotFound", i)
             ELSE IF players[g.player].team # g.team
             THEN fail("PlayerTeamMismatch", i)
             ELSE IF g.team = match.home
             THEN validateGoals_swappedCounters(match, G, i + 1, homeScore, awayScore + 1)
             ELSE validateGoals_swappedCounters(match, G, i + 1, homeScore + 1, awayScore)

\* the loop with the player looked up before the team of the goal is checked
RECURSIVE validateGoals_playerFirst(_, _, _, _, _)
validateGoals_playerFirst(match, G, i, homeScore, awayScore) ==
    IF i > Len(G)
    THEN [err |-> "ok", pos |-> 0, lookups |-> Len(G),
          homeScore |-> homeScore, awayScore |-> awayScore]
    ELSE LET g == G[i]
             fail(e, n) == [err |-> e, pos |-> i, lookups |-> n,
                            homeScore |-> homeScore, awayScore |-> awayScore]
         IN  IF ~PlayerFound(g.player)
             THEN fail("PlayerNotFound", i)
             ELSE IF g.team # match.home /\ g.team # match.away
             THEN fail("TeamNotInMatch", i)
             ELSE IF players[g.player].team # g.team
             THEN fail("PlayerTeamMismatch", i)
             ELSE IF g.team = match.home
             THEN validateGoals_playerFirst(match, G, i + 1, homeScore + 1, awayScore)
             ELSE validateGoals_playerFirst(match, G, i + 1, homeScore, awayScore + 1)

\* the loop accepting a player of either team of the match, instead of a
\* player of the goal's declared team
RECURSIVE validateGoals_anyMatchTeam(_, _, _, _, _)
validateGoals_anyMatchTeam(match, G, i, homeScore, awayScore) ==
    IF i > Len(G)
    THEN [err |-> "ok", pos |-> 0, lookups |-> Len(G),
          homeScore |-> homeScore, awayScore |-> awayScore]
    ELSE LET g == G[i]
             fail(e, n) == [err |-> e, pos |-> i, lookups |-> n,
                            homeScore |-> homeScore, awayScore |-> awayScore]
         IN  IF g.team # match.home /\ g.team # match.away
             THEN fail("TeamNotInMatch", i - 1)
             ELSE IF ~PlayerFound(g.player)
             THEN fail("PlayerNotFound", i)
             ELSE IF players[g.player].team \notin {match.home, match.away}
             THEN fail("PlayerTeamMismatch", i)
             ELSE IF g.team = match.home
             THEN validateGoals_anyMatchTeam(match, G, i + 1, homeScore + 1, awayScore)
             ELSE validateGoals_anyMatchTeam(match, G, i + 1, homeScore, awayScore + 1)

\* the loop over req.Goals from index i on, with the running counters;
\* lookups is the number of playerRepo.FindByID calls made
RECURSIVE validateGoals(_, _, _, _, _)
validateGoals(match, G, i, homeScore, awayScore) ==
    IF i > Len(G)
    THEN [err |-> "ok", pos |-> 0, lookups |-> Len(G),
          homeScore |-> homeScore, awayScore |-> awayScore]
    ELSE LET g == G[i]
             fail(e, n) == [err |-> e, pos |-> i, lookups |-> n,
                            homeScore |-> homeScore, awayScore |-> awayScore]
         IN  IF g.team # match.home /\ g.team # match.away
             THEN fail("TeamNotInMatch", i - 1)
             ELSE IF ~PlayerFound(g.player)
             THEN fail("PlayerNotFound", i)
             ELSE IF players[g.player].team # g.team
             THEN fail("PlayerTeamMismatch", i)
             ELSE IF g.team = match.home
             THEN validateGoals(match, G, i + 1, homeScore + 1, awayScore)
             ELSE validateGoals(match, G, i + 1, homeScore, awayScore + 1)

\* the model.Goal rows built from the request
GoalRows(m, G) ==
    [i \in 1..Len(G) |-> [match |-> m, player |-> G[i].player,
                          team |-> G[i].team, minute |-> G[i].minute]]

\* processResult inserting each goal as soon as it is validated: a rejection
\* leaves the goals validated before the failing one in the table
processResult_insertsAsValidated(m, match, G, table) ==
    LET v == validateGoals(match, G, 1, 0, 0)
    IN  IF v.err # "ok"
        THEN [resp |-> [err |-> v.err, pos |-> v.pos, lookups |-> v.lookups],
              matches |-> matches,
              goals |-> CreateBatch(table, GoalRows(m, SubSeq(G, 1, v.pos - 1)))]
        ELSE [resp |-> [err |-> "ok", pos |-> 0, lookups |-> v.lookups],
              matches |-> [matches EXCEPT ![m] =
                              [match EXCEPT !.homeScore = v.homeScore,
                                            !.awayScore = v.awayScore,
                                            !.status = "completed"]],
              goals |-> CreateBatch(table, GoalRows(m, G))]

\* processResult(match, req) run against the goals table `table`:
\* the answer and the tables it leaves
processResult(m, match, G, table) ==
    LET v == validateGoals(match, G, 1, 0, 0)
    IN  IF v.err # "ok"
        THEN [resp |-> [err |-> v.err, pos |-> v.pos, lookups |-> v.lookups],
              matches |-> matches, goals |-> table]
        ELSE [resp |-> [err |-> "ok", pos |-> 0, lookups |-> v.lookups],
              matches |-> [matches EXCEPT ![m] =
                              [match EXCEPT !.homeScore = v.homeScore,
                                            !.awayScore = v.awayScore,
                                            !.status = "completed"]],
              goals |-> IF Len(G) > 0 THEN CreateBatch(table, GoalRows(m, G))
                        ELSE table]

\* ---- matchService.SubmitResult / UpdateResult ----------------------------
Rejected(e) == [resp |-> [err |-> e, pos |-> 0, lookups |-> 0],
                matches |-> matches, goals |-> goals]

\* SubmitResult without the check of the status
SubmitResult_noStatusCheck(m, G) ==
    IF ~MatchFound(m) THEN Rejected("MatchNotFound")
    ELSE processResult(m, matches[m], G, goals)

SubmitResult(m, G) ==
    IF ~MatchFound(m) THEN Rejected("MatchNotFound")
    ELSE IF matches[m].status = "completed" THEN Rejected("AlreadyCompleted")
    ELSE processResult(m, matches[m], G, goals)

\* UpdateResult validating the new list before it deletes the stored goals
UpdateResult_validatesFirst(m, G) ==
    IF ~MatchFound(m) THEN Rejected("MatchNotFound")
    ELSE IF matches[m].status # "completed" THEN Rejected("NotYetCompleted")
    ELSE IF validateGoals(matches[m], G, 1, 0, 0).err # "ok"
         THEN processResult(m, matches[m], G, goals)
    ELSE processResult(m, matches[m], G, DeleteByMatchID(goals, m))

\* UpdateResult without the check of the status
UpdateResult_noStatusCheck(m, G) ==
    IF ~MatchFound(m) THEN Rejected("MatchNotFound")
    ELSE processResult(m, matches[m], G, DeleteByMatchID(goals, m))

UpdateResult(m, G) ==
    IF ~MatchFound(m) THEN Rejected("MatchNotFound")
    ELSE IF matches[m].status # "completed" THEN Rejected("NotYetCompleted")
    ELSE processResult(m, matches[m], G, DeleteByMatchID(goals, m))

\* ---- matchService.Create / Update ----------------------------------------
\* the id BeforeCreate gives the new row: one no row has
NewMatchId ==
    CHOOSE m \in DOMAIN matches :
        /\ matches[m].status = "none"
        /\ \A n \in DOMAIN matches : matches[n].status = "none" => m <= n

\* Create looking the teams up before it compares the two ids
Create_lookupFirst(home, away, date, time) ==
    IF ~TeamFound(home) THEN Rejected("HomeTeamNotFound")
    ELSE IF ~TeamFound(away) THEN Rejected("AwayTeamNotFound")
    ELSE IF home = away THEN Rejected("InvalidTeams")
    ELSE [resp |-> [err |-> "ok", pos |-> 0, lookups |-> 0],
          matches |-> [matches EXCEPT ![NewMatchId] =
                          [home |-> home, away |-> away, date |-> date, time |-> time,
                           homeScore |-> 0, awayScore |-> 0, status |-> "scheduled"]],
          goals |-> goals]

Create(home, away, date, time) ==
    IF home = away THEN Rejected("InvalidTeams")
    ELSE IF ~TeamFound(home) THEN Rejected("HomeTeamNotFound")
    ELSE IF ~TeamFound(away) THEN Rejected("AwayTeamNotFound")
    ELSE [resp |-> [err |-> "ok", pos |-> 0, lookups |-> 0],
          matches |-> [matches EXCEPT ![NewMatchId] =
                          [home |-> home, away |-> away, date |-> date, time |-> time,
                           homeScore |-> 0, awayScore |-> 0, status |-> "scheduled"]],
          goals |-> goals]

\* Update checking the status of the match after the teams of the request
Update_statusCheckLast(m, home, away, date, time) ==
    IF ~MatchFound(m) THEN Rejected("MatchNotFound")
    ELSE IF home = away THEN Rejected("InvalidTeams")
    ELSE IF ~TeamFound(home) THEN Rejected("HomeTeamNotFound")
    ELSE IF ~TeamFound(away) THEN Rejected("AwayTeamNotFound")
    ELSE IF matches[m].status = "completed" THEN Rejected("MatchAlreadyCompleted")
    ELSE [resp |-> [err |-> "ok", pos |-> 0, lookups |-> 0],
          matches |-> [matches EXCEPT ![m] =
                          [matches[m] EXCEPT !.home = home, !.away = away,
                                             !.date = date, !.time = time]],
          goals |-> goals]

\* Update of any match, writing a rebuilt row as Create does (status scheduled)
Update_rebuildsRow(m, home, away, date, time) ==
    IF ~MatchFound(m) THEN Rejected("MatchNotFound")
    ELSE IF home = away THEN Rejected("InvalidTeams")
    ELSE IF ~TeamFound(home) THEN Rejected("HomeTeamNotFound")
    ELSE IF ~TeamFound(away) THEN Rejected("AwayTeamNotFound")
    ELSE [resp |-> [err |-> "ok", pos |-> 0, lookups |-> 0],
          matches |-> [matches EXCEPT ![m] =
                          [matches[m] EXCEPT !.home = home, !.away = away,
                                             !.date = date, !.time = time,
                                             !.status = "scheduled"]],
          goals |-> goals]

Update(m, home, away, date, time) ==
    IF ~MatchFound(m) THEN Rejected("MatchNotFound")
    ELSE IF matches[m].status = "completed" THEN Rejected("MatchAlreadyCompleted")
    ELSE IF home = away THEN Rejected("InvalidTeams")
    ELSE IF ~TeamFound(home) THEN Rejected("HomeTeamNotFound")
    ELSE IF ~TeamFound(away) THEN Rejected("AwayTeamNotFound")
    ELSE [resp |-> [err |-> "ok", pos |-> 0, lookups |-> 0],
          matches |-> [matches EXCEPT ![m] =
                          [matches[m] EXCEPT !.home = home, !.away = away,
                                             !.date = date, !.time = time]],
          goals |-> goals]

\* ---- handlers -------------------------------------------------------------
\* the binding without the tag on Minute
BindResult_noMinuteTag(G) == \A i \in 1..Len(G) : TRUE

\* ShouldBindJSON of a MatchResultRequest: every GoalInput has
\* binding "required,gte=1" on Minute
BindResult(G) == \A i \in 1..Len(G) : G[i].minute # 0 /\ G[i].minute >= 1

\* MatchHandler.SubmitResult / UpdateResult: bind, then the service
HandlerSubmitResult(m, G) ==
    IF ~BindResult(G) THEN Rejected("InvalidMinute") ELSE SubmitResult(m, G)

HandlerUpdateResult(m, G) ==
    IF ~BindResult(G) THEN Rejected("InvalidMinute") ELSE UpdateResult(m, G)

Outcome(r) ==
    CASE r.op = "SubmitResult" -> HandlerSubmitResult(r.id, r.goals)
      [] r.op = "UpdateResult" -> HandlerUpdateResult(r.id, r.goals)
      [] r.op = "CreateMatch" -> Create(r.home, r.away, r.date, r.time)
      [] r.op = "UpdateMatch" -> Update(r.id, r.home, r.away, r.date, r.time)

\* ---- the state machine ------------------------------------------------------
\* the tables after the migration and after the teams and the players of the
\* model were created (teamService.Create, playerService.Create): every team
\* and player row exists, no match and no goal row does
Init ==
    /\ teams = [t \in TeamIds |-> [deleted |-> FALSE]]
    /\ players = [p \in PlayerIds |-> [team |-> TeamOfPlayer(p), jersey |-> 1, deleted |-> FALSE]]
    /\ matches = [m \in MatchIds |-> NoMatch]
    /\ goals = <<>>
    /\ refreshTokens = NoTokens
    /\ pc = "idle"
    /\ req = NoReq
    /\ resp = NoResp

\* a request arrives
CallResult ==
    /\ pc = "idle"
    /\ \E op \in {"SubmitResult", "UpdateResult"}, m \in MatchIds, G \in GoalLists :
          req' = [NoReq EXCEPT !.op = op, !.id = m, !.goals = G]
    /\ pc' = "called"
    /\ resp' = NoResp
    /\ UNCHANGED <<teams, players, matches, goals>>
    /\ UNCHANGED refreshTokens

CallCreateMatch ==
    /\ pc = "idle"
    /\ \E m \in MatchIds : matches[m].status = "none"
    /\ \E home \in ReqTeamIds, away \in ReqTeamIds, date \in Dates, time \in Times :
          req' = [NoReq EXCEPT !.op = "CreateMatch", !.home = home, !.away = away,
                               !.date = date, !.time = time]
    /\ pc' = "called"
    /\ resp' = NoResp
    /\ UNCHANGED <<teams, players, matches, goals>>
    /\ UNCHANGED refreshTokens

CallUpdateMatch ==
    /\ pc = "idle"
    /\ \E m \in MatchIds, home \in ReqTeamIds, away \in ReqTeamIds,
          date \in Dates, time \in Times :
          req' = [NoReq EXCEPT !.op = "UpdateMatch", !.id = m, !.home = home,
                               !.away = away, !.date = date, !.time = time]
    /\ pc' = "called"
    /\ resp' = NoResp
    /\ UNCHANGED <<teams, players, matches, goals>>
    /\ UNCHANGED refreshTokens

\* the handler of the request runs to its end
Handle ==
    /\ pc = "called"
    /\ LET out == Outcome(req)
       IN  /\ resp' = out.resp
           /\ matches' = out.matches
           /\ goals' = out.goals
    /\ pc' = "done"
    /\ UNCHANGED <<teams, players, req>>
    /\ UNCHANGED refreshTokens

\* the response is written; the next request can be taken
Respond ==
    /\ pc = "done"
    /\ pc' = "idle"
    /\ req' = NoReq
    /\ resp' = NoResp
    /\ UNCHANGED <<teams, players, matches, goals>>
    /\ UNCHANGED refreshTokens

Next ==
    \/ CallResult
    \/ CallCreateMatch
    \/ CallUpdateMatch
    \/ Handle
    \/ Respond

Spec == Init /\ [][Next]_vars

\* ---- vocabulary of the properties ---------------------------------------------
ResultOps == {"SubmitResult", "UpdateResult"}

ValidationErrs == {"TeamNotInMatch", "PlayerNotFound", "PlayerTeamMismatch"}

\* number of elements of a sequence of goals (rows or inputs) of team t
RECURSIVE CountTeam(_, _)
CountTeam(s, t) ==
    IF s = <<>> THEN 0
    ELSE (IF Head(s).team = t THEN 1 ELSE 0) + CountTeam(Tail(s), t)

\* the service method of the request is entered: the body was bound
ServiceInvoked(r) == \A i \in 1..Len(r.goals) : r.goals[i].minute >= 1

\* the request reaches processResult: bound, match found, status legal for the op
Processes(r) ==
    /\ r.op \in ResultOps
    /\ ServiceInvoked(r)
    /\ MatchFound(r.id)
    /\ r.op = "SubmitResult" => matches[r.id].status = "scheduled"
    /\ r.op = "UpdateResult" => matches[r.id].status = "completed"

\* a goal input that passes every check of the loop for match row mt
ValidGoal(mt, g) ==
    /\ g.team \in {mt.home, mt.away}
    /\ PlayerFound(g.player)
    /\ players[g.player].team = g.team

TypeOK ==
    /\ pc \in {"idle", "called", "done"}
    /\ \A m \in MatchIds : matches[m].status \in {"none", "scheduled", "completed"}
    /\ \A i \in 1..Len(goals) : goals[i].match \in MatchIds

\* ---- C1 -------------------------------------------------------------------------
\* C1: in every persisted state every completed match has home_score equal to
\* the number of its stored goals of the home team, and home_score + away_score
\* equal to the number of its stored goals.
C1_ScoresAreGoalTally ==
    \A m \in MatchIds :
        matches[m].status = "completed" =>
            /\ matches[m].homeScore = CountTeam(GoalsOf(goals, m), matches[m].home)
            /\ matches[m].homeScore + matches[m].awayScore = Len(GoalsOf(goals, m))

\* ---- C2 -------------------------------------------------------------------------
\* C2: a match whose status is completed keeps status completed at every step,
\* and the only changes of a match's status are (no row) -> scheduled by
\* CreateMatch and scheduled -> completed by a result submission.
C2_CompletedNeverScheduled ==
    [][\A m \in MatchIds :
          /\ matches[m].status = "completed" => matches'[m].status = "completed"
          /\ matches'[m].status # matches[m].status =>
                \/ /\ matches[m].status = "scheduled"
                   /\ matches'[m].status = "completed"
                   /\ req.op = "SubmitResult"
                \/ /\ matches[m].status = "none"
                   /\ matches'[m].status = "scheduled"
                   /\ req.op = "CreateMatch"]_vars

\* a successful UpdateResult has acted on a completed match, which is still
\* completed
C2_Witness ==
    /\ pc = "done"
    /\ req.op = "UpdateResult"
    /\ resp.err = "ok"
    /\ Len(req.goals) > 0
    /\ matches[req.id].status = "completed"

\* ---- C3 -------------------------------------------------------------------------
\* C3: after a successful SubmitResult or UpdateResult with goal list G the match
\* is completed, home_score is the number of entries of G of the home team,
\* away_score the number of entries of the away team, and the stored goals of
\* the match are the entries of G, one row per entry.
C3_SuccessStoresResult ==
    (pc = "done" /\ req.op \in ResultOps /\ resp.err = "ok") =>
        LET mt == matches[req.id]
            G == req.goals
            rows == GoalsOf(goals, req.id)
        IN  /\ mt.status = "completed"
            /\ mt.homeScore = CountTeam(G, mt.home)
            /\ mt.awayScore = CountTeam(G, mt.away)
            /\ Len(rows) = Len(G)
            /\ \A i \in 1..Len(G) :
                  /\ rows[i].player = G[i].player
                  /\ rows[i].team = G[i].team
                  /\ rows[i].minute = G[i].minute

\* a successful result whose entries are not in minute order, one goal a side
C3_Witness ==
    /\ pc = "done"
    /\ req.op \in ResultOps
    /\ resp.err = "ok"
    /\ Len(req.goals) = 2
    /\ req.goals[1].minute > req.goals[2].minute
    /\ req.goals[1].team = matches[req.id].away
    /\ req.goals[2].team = matches[req.id].home

C6_RejectedSubmitWritesNothing ==
    [][(pc = "called" /\ req.op = "SubmitResult" /\ Processes(req)) =>
          /\ (\E i \in 1..Len(req.goals) : ~ValidGoal(matches[req.id], req.goals[i]))
                => resp'.err \in ValidationErrs
          /\ resp'.err \in ValidationErrs =>
                /\ matches' = matches
                /\ goals' = goals
                /\ matches'[req.id].status = "scheduled"
                /\ GoalsOf(goals', req.id) = <<>>]_vars

\* a SubmitResult was rejected at its second goal, after a valid first goal
C6_Witness ==
    /\ pc = "done"
    /\ req.op = "SubmitResult"
    /\ resp.err \in ValidationErrs
    /\ resp.pos = 2
    /\ ValidGoal(matches[req.id], req.goals[1])
    /\ matches[req.id].status = "scheduled"

\* ---- C7 -------------------------------------------------------------------------
\* C7: an UpdateResult on a completed match that is rejected by goal validation
\* leaves the persisted state as it was before the call: same stored goals,
\* same scores, status completed.
C7_RejectedUpdateChangesNothing ==
    [][(pc = "called" /\ req.op = "UpdateResult" /\ Processes(req)
          /\ resp'.err \in ValidationErrs) =>
            /\ matches' = matches
            /\ goals' = goals]_vars

\* ---- C8 -------------------------------------------------------------------------
\* C8: a result request that reaches goal validation and holds a goal whose team
\* is neither the home nor the away team never succeeds; when the goals before
\* it are valid the answer is TeamNotInMatch for that goal, given before the
\* goal's player is looked up, whether the player exists or not.
C8_TeamNotInMatch ==
    [][(pc = "called" /\ Processes(req)) =>
          \A i \in 1..Len(req.goals) :
              req.goals[i].team \notin {matches[req.id].home, matches[req.id].away} =>
                  /\ resp'.err # "ok"
                  /\ (\A j \in 1..(i - 1) : ValidGoal(matches[req.id], req.goals[j])) =>
                        /\ resp'.err = "TeamNotInMatch"
                        /\ resp'.pos = i
                        /\ resp'.lookups = i - 1]_vars

\* TeamNotInMatch was the answer for a goal whose player does not exist either
C8_Witness ==
    /\ pc = "done"
    /\ req.op \in ResultOps
    /\ resp.err = "TeamNotInMatch"
    /\ ~PlayerFound(req.goals[resp.pos].player)
    /\ req.goals[resp.pos].team \notin {matches[req.id].home, matches[req.id].away}

\* ---- C9 -------------------------------------------------------------------------
\* C9: a result request that reaches goal validation and holds a goal of one of
\* the match's teams whose player exists and belongs to another team than the
\* goal's declared team never succeeds; when the goals before it are valid the
\* answer is PlayerTeamMismatch for that goal, at any position, for both
\* SubmitResult and UpdateResult.
C9_PlayerTeamMismatch ==
    [][(pc = "called" /\ Processes(req)) =>
          \A i \in 1..Len(req.goals) :
              (/\ req.goals[i].team \in {matches[req.id].home, matches[req.id].away}
               /\ PlayerFound(req.goals[i].player)
               /\ players[req.goals[i].player].team # req.goals[i].team) =>
                  /\ resp'.err # "ok"
                  /\ (\A j \in 1..(i - 1) : ValidGoal(matches[req.id], req.goals[j])) =>
                        /\ resp'.err = "PlayerTeamMismatch"
                        /\ resp'.pos = i]_vars

\* PlayerTeamMismatch was the answer of UpdateResult for the second goal, whose
\* player belongs to the other team of the match
C9_Witness ==
    /\ pc = "done"
    /\ req.op = "UpdateResult"
    /\ resp.err = "PlayerTeamMismatch"
    /\ resp.pos = 2
    /\ PlayerFound(req.goals[2].player)
    /\ players[req.goals[2].player].team \in {matches[req.id].home, matches[req.id].away}

\* ---- C10 ------------------------------------------------------------------------
\* C10: a SubmitResult or UpdateResult request holding a goal of minute below 1
\* is answered InvalidMinute and writes nothing, and every stored goal has
\* minute >= 1.
C10_InvalidMinute ==
    /\ [](\A i \in 1..Len(goals) : goals[i].minute >= 1)
    /\ [][(pc = "called" /\ req.op \in ResultOps
             /\ \E i \in 1..Len(req.goals) : req.goals[i].minute < 1) =>
               /\ resp'.err = "InvalidMinute"
               /\ matches' = matches
               /\ goals' = goals]_vars

\* InvalidMinute was the answer to an UpdateResult on a completed match with
\* stored goals, for a list whose only fault is the minute of its last goal
C10_Witness ==
    /\ pc = "done"
    /\ req.op = "UpdateResult"
    /\ resp.err = "InvalidMinute"
    /\ matches[req.id].status = "completed"
    /\ GoalsOf(goals, req.id) # <<>>
    /\ Len(req.goals) = 2
    /\ req.goals[1].minute >= 1
    /\ req.goals[2].minute < 1
    /\ \A i \in 1..2 : ValidGoal(matches[req.id], req.goals[i])

\* ---- C11 ------------------------------------------------------------------------
\* C11: after a successful UpdateResult with goal list G on a completed match,
\* a second UpdateResult with the same G succeeds and leaves the same match row
\* (scores, status) and the same stored goals of the match (player, team,
\* minute) as the first one did.
C11_UpdateResultIdempotent ==
    (pc = "done" /\ req.op = "UpdateResult" /\ resp.err = "ok") =>
        LET again == HandlerUpdateResult(req.id, req.goals)
        IN  /\ again.resp.err = "ok"
            /\ again.matches = matches
            /\ GoalsOf(again.goals, req.id) = GoalsOf(goals, req.id)

\* a successful UpdateResult with two goals that replaced a different result
C11_Witness ==
    /\ pc = "done"
    /\ req.op = "UpdateResult"
    /\ resp.err = "ok"
    /\ Len(req.goals) = 2
    /\ Len(GoalsOf(goals, req.id)) = 2
    /\ req.goals[1].team # req.goals[2].team

\* ---- C12 ------------------------------------------------------------------------
\* C12: a CreateMatch whose home and away team ids are equal is answered
\* InvalidTeams, also when the team does not exist; an UpdateMatch whose ids are
\* equal is rejected, with InvalidTeams when the match exists and is scheduled;
\* neither writes anything, and every stored match has two distinct teams.
C12_InvalidTeams ==
    /\ [](\A m \in DOMAIN matches : MatchFound(m) => matches[m].home # matches[m].away)
    /\ [][(pc = "called" /\ req.op \in {"CreateMatch", "UpdateMatch"}
             /\ req.home = req.away) =>
               /\ matches' = matches
               /\ goals' = goals
               /\ resp'.err \notin {"ok", "HomeTeamNotFound", "AwayTeamNotFound"}
               /\ req.op = "CreateMatch" => resp'.err = "InvalidTeams"
               /\ (req.op = "UpdateMatch" /\ MatchFound(req.id)
                     /\ matches[req.id].status = "scheduled")
                        => resp'.err = "InvalidTeams"]_vars

\* C12 as stated, without the scoping of UpdateMatch: every CreateMatch or
\* UpdateMatch whose two team ids are equal is answered InvalidTeams and writes
\* nothing.
C12_AlwaysInvalidTeams ==
    [][(pc = "called" /\ req.op \in {"CreateMatch", "UpdateMatch"}
          /\ req.home = req.away) =>
            /\ resp'.err = "InvalidTeams"
            /\ matches' = matches
            /\ goals' = goals]_vars

\* InvalidTeams was the answer to a CreateMatch naming twice a team that does
\* not exist
C12_Witness ==
    /\ pc = "done"
    /\ req.op = "CreateMatch"
    /\ resp.err = "InvalidTeams"
    /\ ~TeamFound(req.home)

\* ---- C13 ------------------------------------------------------------------------
\* C13: an UpdateMatch on a completed match is answered MatchAlreadyCompleted
\* whatever its fields and writes nothing, and a completed match keeps its home
\* team, away team, date and time at every step.
C13_CompletedScheduleImmutable ==
    [][/\ (pc = "called" /\ req.op = "UpdateMatch" /\ MatchFound(req.id)
             /\ matches[req.id].status = "completed") =>
               /\ resp'.err = "MatchAlreadyCompleted"
               /\ matches' = matches
               /\ goals' = goals
       /\ \A m \in DOMAIN matches :
             matches[m].status = "completed" =>
                 /\ matches'[m].home = matches[m].home
                 /\ matches'[m].away = matches[m].away
                 /\ matches'[m].date = matches[m].date
                 /\ matches'[m].time = matches[m].time]_vars

\* MatchAlreadyCompleted was the answer to an UpdateMatch whose two team ids are
\* equal and name no team, with a new date
C13_Witness ==
    /\ pc = "done"
    /\ req.op = "UpdateMatch"
    /\ resp.err = "MatchAlreadyCompleted"
    /\ req.home = req.away
    /\ ~TeamFound(req.home)
    /\ req.date # matches[req.id].date

\* ---- players ------------------------------------------------------------------
\* jersey numbers of the requests; 0 is the number the binding refuses
ReqJerseys == 0..MaxJersey

\* playerRepository.FindByTeamIDAndJerseyNumber: the rows of the team wearing the
\* number, soft-deleted rows hidden
FindByTeamIDAndJerseyNumber(t, j) ==
    {p \in DOMAIN players :
        ~players[p].deleted /\ players[p].team = t /\ players[p].jersey = j}

\* the id of a new player row
NewPlayerId ==
    CHOOSE p \in PlayerIds \ DOMAIN players :
        \A q \in PlayerIds \ DOMAIN players : p <= q

RejectedPlayer(e) == [resp |-> [NoResp EXCEPT !.err = e], players |-> players]

\* playerService.Create
PlayerCreate(t, j) ==
    IF ~TeamFound(t) THEN RejectedPlayer("TeamNotFound")
    ELSE IF FindByTeamIDAndJerseyNumber(t, j) # {} THEN RejectedPlayer("JerseyConflict")
    ELSE [resp |-> [NoResp EXCEPT !.err = "ok"],
          players |-> [p \in DOMAIN players \cup {NewPlayerId} |->
                          IF p = NewPlayerId
                          THEN [team |-> t, jersey |-> j, deleted |-> FALSE]
                          ELSE players[p]]]

\* playerService.Update writing the number without looking for its holder
PlayerUpdate_noJerseyCheck(id, j) ==
    IF ~PlayerFound(id) THEN RejectedPlayer("PlayerNotFound")
    ELSE [resp |-> [NoResp EXCEPT !.err = "ok"],
          players |-> [players EXCEPT ![id].jersey = j]]

\* playerService.Update: the team of the player is not a field of the request
PlayerUpdate(id, j) ==
    IF ~PlayerFound(id) THEN RejectedPlayer("PlayerNotFound")
    ELSE IF j # players[id].jersey
            /\ FindByTeamIDAndJerseyNumber(players[id].team, j) # {}
         THEN RejectedPlayer("JerseyConflict")
    ELSE [resp |-> [NoResp EXCEPT !.err = "ok"],
          players |-> [players EXCEPT ![id].jersey = j]]

\* playerService.Delete: a soft delete
PlayerDelete(id) ==
    IF ~PlayerFound(id) THEN RejectedPlayer("PlayerNotFound")
    ELSE [resp |-> [NoResp EXCEPT !.err = "ok"],
          players |-> [players EXCEPT ![id].deleted = TRUE]]

\* binding of jersey_number: required and gt=0
BindPlayer(j) == j # 0 /\ j > 0

HandlerPlayerCreate(t, j) ==
    IF ~BindPlayer(j) THEN RejectedPlayer("InvalidBody") ELSE PlayerCreate(t, j)

HandlerPlayerUpdate(id, j) ==
    IF ~BindPlayer(j) THEN RejectedPlayer("InvalidBody") ELSE PlayerUpdate(id, j)

PlayerOutcome(r) ==
    CASE r.op = "CreatePlayer" -> HandlerPlayerCreate(r.team, r.jersey)
      [] r.op = "UpdatePlayer" -> HandlerPlayerUpdate(r.id, r.jersey)
      [] r.op = "DeletePlayer" -> PlayerDelete(r.id)

PlayerReq(op, id, t, j) == [op |-> op, id |-> id, team |-> t, jersey |-> j]

\* no player yet
InitPlayers ==
    /\ teams = [t \in TeamIds |-> [deleted |-> FALSE]]
    /\ players = <<>>
    /\ matches = [m \in MatchIds |-> NoMatch]
    /\ goals = <<>>
    /\ refreshTokens = NoTokens
    /\ pc = "idle"
    /\ req = NoReq
    /\ resp = NoResp

CallCreatePlayer ==
    /\ pc = "idle"
    /\ PlayerIds \ DOMAIN players # {}
    /\ \E t \in ReqTeamIds, j \in ReqJerseys : req' = PlayerReq("CreatePlayer", 0, t, j)
    /\ pc' = "called"
    /\ resp' = NoResp
    /\ UNCHANGED <<teams, players, matches, goals>>
    /\ UNCHANGED refreshTokens

CallUpdatePlayer ==
    /\ pc = "idle"
    /\ \E id \in ReqPlayerIds, j \in ReqJerseys : req' = PlayerReq("UpdatePlayer", id, 0, j)
    /\ pc' = "called"
    /\ resp' = NoResp
    /\ UNCHANGED <<teams, players, matches, goals>>
    /\ UNCHANGED refreshTokens

CallDeletePlayer ==
    /\ pc = "idle"
    /\ \E id \in ReqPlayerIds : req' = PlayerReq("DeletePlayer", id, 0, 0)
    /\ pc' = "called"
    /\ resp' = NoResp
    /\ UNCHANGED <<teams, players, matches, goals>>
    /\ UNCHANGED refreshTokens

HandlePlayer ==
    /\ pc = "called"
    /\ LET out == PlayerOutcome(req)
       IN  /\ resp' = out.resp
           /\ players' = out.players
    /\ pc' = "done"
    /\ UNCHANGED <<teams, matches, goals, req>>
    /\ UNCHANGED refreshTokens

NextPlayers ==
    \/ CallCreatePlayer
    \/ CallUpdatePlayer
    \/ CallDeletePlayer
    \/ HandlePlayer
    \/ Respond

SpecPlayers == InitPlayers /\ [][NextPlayers]_vars

\* the other active players of team t wearing number j
OtherHolders(id, t, j) == FindByTeamIDAndJerseyNumber(t, j) \ {id}

\* ---- C20 ------------------------------------------------------------------------
\* C20: with player Create, Update and Delete handled one at a time, no two
\* non-deleted players of a team wear the same number; a Create or Update that
\* would give a player the number of another active player of the team is
\* answered JerseyConflict and changes nothing; a Create or Update whose number
\* is worn by no other active player of the team succeeds, deleted holders of
\* the number notwithstanding.
C20_JerseyUnique ==
    /\ [](\A p \in DOMAIN players, q \in DOMAIN players :
            (p # q /\ ~players[p].deleted /\ ~players[q].deleted
               /\ players[p].team = players[q].team)
                 => players[p].jersey # players[q].jersey)
    /\ [][/\ (pc = "called" /\ req.op = "CreatePlayer" /\ req.jersey >= 1
                /\ TeamFound(req.team)) =>
                  IF OtherHolders(0, req.team, req.jersey) # {}
                  THEN resp'.err = "JerseyConflict" /\ players' = players
                  ELSE /\ resp'.err = "ok"
                       /\ \E p \in DOMAIN players' \ DOMAIN players :
                             players'[p] = [team |-> req.team, jersey |-> req.jersey,
                                            deleted |-> FALSE]
          /\ (pc = "called" /\ req.op = "UpdatePlayer" /\ req.jersey >= 1
                /\ PlayerFound(req.id)) =>
                  IF OtherHolders(req.id, players[req.id].team, req.jersey) # {}
                  THEN resp'.err = "JerseyConflict" /\ players' = players
                  ELSE /\ resp'.err = "ok"
                       /\ players'[req.id].jersey = req.jersey]_vars

\* a player was created with the number of a deleted player of the team, while
\* another player of the team is active
C20_Witness ==
    /\ pc = "done"
    /\ req.op = "CreatePlayer"
    /\ resp.err = "ok"
    /\ \E q \in DOMAIN players :
          players[q].deleted /\ players[q].team = req.team
             /\ players[q].jersey = req.jersey
    /\ \E q \in DOMAIN players :
          ~players[q].deleted /\ players[q].team = req.team
             /\ players[q].jersey # req.jersey

\* ---- match, result and player requests interleaved ------------------------------
\* goal lists of the requests served here: at most one goal, at minute 1
RosterGoalLists == SeqsUpTo([player : ReqPlayerIds, team : TeamIds, minute : {1}], 1)

\* the player requests
PlayerReqs ==
    {PlayerReq("CreatePlayer", 0, t, j) : t \in ReqTeamIds, j \in ReqJerseys}
      \cup {PlayerReq("UpdatePlayer", id, 0, j) : id \in ReqPlayerIds, j \in ReqJerseys}
      \cup {PlayerReq("DeletePlayer", id, 0, 0) : id \in ReqPlayerIds}

\* a player request is served from its arrival to its response
ServePlayer ==
    /\ pc = "idle"
    /\ \E r \in PlayerReqs :
          /\ r.op = "CreatePlayer" => PlayerIds \ DOMAIN players # {}
          /\ players' = PlayerOutcome(r).players
    /\ UNCHANGED <<teams, matches, goals, pc, req, resp>>
    /\ UNCHANGED refreshTokens

\* a CreateMatch or UpdateMatch request is served from its arrival to its response
ServeMatch ==
    /\ pc = "idle"
    /\ \E op \in {"CreateMatch", "UpdateMatch"}, m \in MatchIds,
          home \in ReqTeamIds, away \in ReqTeamIds :
          /\ op = "CreateMatch" => \E n \in MatchIds : matches[n].status = "none"
          /\ LET out == Outcome([NoReq EXCEPT !.op = op, !.id = m, !.home = home,
                                              !.away = away, !.date = 1, !.time = 1])
             IN  /\ matches' = out.matches
                 /\ goals' = out.goals
    /\ UNCHANGED <<teams, players, pc, req, resp>>
    /\ UNCHANGED refreshTokens

\* a SubmitResult or UpdateResult request is served from its arrival to its response
ServeResult ==
    /\ pc = "idle"
    /\ \E op \in {"SubmitResult", "UpdateResult"}, m \in MatchIds, G \in RosterGoalLists :
          LET out == Outcome([NoReq EXCEPT !.op = op, !.id = m, !.goals = G])
          IN  /\ matches' = out.matches
              /\ goals' = out.goals
    /\ UNCHANGED <<teams, players, pc, req, resp>>
    /\ UNCHANGED refreshTokens

NextRoster ==
    \/ ServePlayer
    \/ ServeMatch
    \/ ServeResult

SpecRoster == InitPlayers /\ [][NextRoster]_vars

\* ---- C14 ------------------------------------------------------------------------
\* C14: in every state reached by match schedule, result and player requests,
\* each stored goal has the home team or the away team of its match as its team,
\* and its player is a player row of that team.
C14_GoalTeamAndPlayer ==
    \A i \in 1..Len(goals) :
        LET g == goals[i]
        IN  /\ g.match \in DOMAIN matches
            /\ matches[g.match].status # "none"
            /\ g.team \in {matches[g.match].home, matches[g.match].away}
            /\ g.player \in DOMAIN players
            /\ players[g.player].team = g.team

\* a goal is stored whose scorer has since been deleted, while another player
\* took the scorer's number in the team
C14_Witness ==
    \E i \in 1..Len(goals) :
        /\ players[goals[i].player].deleted
        /\ \E q \in DOMAIN players :
              /\ ~players[q].deleted
              /\ players[q].team = goals[i].team
              /\ players[q].jersey = players[goals[i].player].jersey

\* ---- reports --------------------------------------------------------------------
Scores == 0..MaxScore

\* computeMatchResult with the home comparison made >=
computeMatchResult_homeOnEqual(homeScore, awayScore) ==
    IF homeScore >= awayScore THEN "Home Win"
    ELSE IF awayScore > homeScore THEN "Away Win"
    ELSE "Draw"

\* computeMatchResult
computeMatchResult(homeScore, awayScore) ==
    IF homeScore > awayScore THEN "Home Win"
    ELSE IF awayScore > homeScore THEN "Away Win"
    ELSE "Draw"

\* the label of a pair of scores is asked for
InitOutcome ==
    /\ teams = [t \in TeamIds |-> [deleted |-> FALSE]]
    /\ players = <<>>
    /\ matches = [m \in MatchIds |-> NoMatch]
    /\ goals = <<>>
    /\ refreshTokens = NoTokens
    /\ pc = "called"
    /\ \E h \in Scores, a \in Scores :
          req = [op |-> "computeMatchResult", homeScore |-> h, awayScore |-> a]
    /\ resp = NoResp

ComputeOutcome ==
    /\ pc = "called"
    /\ req.op = "computeMatchResult"
    /\ resp' = [result |-> computeMatchResult(req.homeScore, req.awayScore)]
    /\ pc' = "done"
    /\ UNCHANGED <<teams, players, matches, goals, req>>
    /\ UNCHANGED refreshTokens

SpecOutcome == InitOutcome /\ [][ComputeOutcome]_vars

\* ---- C15 ------------------------------------------------------------------------
\* C15: for every pair of scores from 0 up, the label is one of Home Win, Away
\* Win and Draw; it is Home Win exactly when the home score is the greater, Away
\* Win exactly when the away score is the greater, Draw exactly when the two are
\* equal.
C15_OutcomeTotal ==
    (pc = "done" /\ req.op = "computeMatchResult") =>
        /\ resp.result \in {"Home Win", "Away Win", "Draw"}
        /\ (resp.result = "Home Win") <=> (req.homeScore > req.awayScore)
        /\ (resp.result = "Away Win") <=> (req.awayScore > req.homeScore)
        /\ (resp.result = "Draw") <=> (req.homeScore = req.awayScore)

\* the label of 0-0 is Draw
C15_Witness ==
    /\ pc = "done"
    /\ req.op = "computeMatchResult"
    /\ req.homeScore = 0
    /\ req.awayScore = 0
    /\ resp.result = "Draw"

\* ---- report service -------------------------------------------------------------
ReportMatchIds == 1..MaxReportMatches
ReqReportMatchIds == 0..MaxReportMatches
ReportTeamIds == 1..MaxReportTeams
ReqPages == 0..MaxPage
ReqPerPages == (0..MaxReqPerPage) \cup {MaxPerPage + 1}

\* goals of the requests served before a report: the players of the report
\* teams, each for its own team, and a player id of no row
ReportGoalInputs ==
    {[player |-> p, team |-> IF p = 0 THEN 1 ELSE TeamOfPlayer(p), minute |-> 1] :
        p \in 0..MaxReportTeams}

ReportGoalLists == SeqsUpTo(ReportGoalInputs, MaxReportGoals)

\* the orders in which the elements of S can be visited
RECURSIVE Perms(_)
Perms(S) ==
    IF S = {} THEN {<<>>}
    ELSE UNION {{<<x>> \o o : o \in Perms(S \ {x})} : x \in S}

NoScorer == [player |-> 0, goals |-> 0]

\* the playerGoals map of GetMatchReportByID: goals of the match per player id
playerGoals(rows) ==
    [p \in {rows[i].player : i \in 1..Len(rows)} |->
        Cardinality({i \in 1..Len(rows) : rows[i].player = p})]

\* the top scorer loop taking the first entry it visits
RECURSIVE topScorerLoop_firstVisited(_, _, _, _, _)
topScorerLoop_firstVisited(order, counts, i, maxGoals, top) ==
    IF i > Len(order) THEN top
    ELSE IF maxGoals = 0
         THEN topScorerLoop_firstVisited(order, counts, i + 1, counts[order[i]],
                                         [player |-> order[i], goals |-> counts[order[i]]])
         ELSE topScorerLoop_firstVisited(order, counts, i + 1, maxGoals, top)

\* the top scorer loop of GetMatchReportByID over the map, visited in `order`
RECURSIVE topScorerLoop(_, _, _, _, _)
topScorerLoop(order, counts, i, maxGoals, top) ==
    IF i > Len(order) THEN top
    ELSE IF counts[order[i]] > maxGoals
         THEN topScorerLoop(order, counts, i + 1, counts[order[i]],
                            [player |-> order[i], goals |-> counts[order[i]]])
         ELSE topScorerLoop(order, counts, i + 1, maxGoals, top)

\* matchRepository.CountWins counting with >=
CountWins_countsDraws(t) ==
    Cardinality({m \in DOMAIN matches :
        /\ matches[m].status = "completed"
        /\ \/ matches[m].home = t /\ matches[m].homeScore >= matches[m].awayScore
           \/ matches[m].away = t /\ matches[m].awayScore >= matches[m].homeScore})

\* matchRepository.CountWins
CountWins(t) ==
    Cardinality({m \in DOMAIN matches :
        /\ matches[m].status = "completed"
        /\ \/ matches[m].home = t /\ matches[m].homeScore > matches[m].awayScore
           \/ matches[m].away = t /\ matches[m].awayScore > matches[m].homeScore})

NoReport(e) ==
    [err |-> e, result |-> "none", topScorer |-> NoScorer,
     homeWins |-> 0, awayWins |-> 0, winQueries |-> 0]

\* GetMatchReportByID reporting whatever the status of the match
GetMatchReportByID_noStatusCheck(m, order) ==
    IF ~MatchFound(m) THEN NoReport("MatchNotFound")
    ELSE LET rows == GoalsOf(goals, m)
         IN  [err |-> "ok",
              result |-> computeMatchResult(matches[m].homeScore, matches[m].awayScore),
              topScorer |-> topScorerLoop(order, playerGoals(rows), 1, 0, NoScorer),
              homeWins |-> CountWins(matches[m].home),
              awayWins |-> CountWins(matches[m].away),
              winQueries |-> 2]

\* reportService.GetMatchReportByID; `order` is the order in which the range
\* over the playerGoals map visits its keys
GetMatchReportByID(m, order) ==
    IF ~MatchFound(m) THEN NoReport("MatchNotFound")
    ELSE IF matches[m].status # "completed" THEN NoReport("NotCompleted")
    ELSE LET rows == GoalsOf(goals, m)
         IN  [err |-> "ok",
              result |-> computeMatchResult(matches[m].homeScore, matches[m].awayScore),
              topScorer |-> topScorerLoop(order, playerGoals(rows), 1, 0, NoScorer),
              homeWins |-> CountWins(matches[m].home),
              awayWins |-> CountWins(matches[m].away),
              winQueries |-> 2]

\* the keys of a map in ascending order
RECURSIVE Ascending(_)
Ascending(S) ==
    IF S = {} THEN <<>>
    ELSE LET x == CHOOSE x \in S : \A y \in S : x <= y
         IN  <<x>> \o Ascending(S \ {x})

\* a map whose keys are always visited in ascending order
MapOrders_sorted(m) ==
    IF MatchFound(m) THEN {Ascending(DOMAIN playerGoals(GoalsOf(goals, m)))} ELSE {<<>>}

\* the orders of the map keys for the report of match m
MapOrders(m) ==
    IF MatchFound(m) THEN Perms(DOMAIN playerGoals(GoalsOf(goals, m))) ELSE {<<>>}

\* PaginationQuery.Sanitize
Sanitize(page, perPage) ==
    [page |-> IF page <= 0 THEN 1 ELSE page,
     perPage |-> IF perPage <= 0 THEN DefaultPerPage
                 ELSE IF perPage > MaxPerPage THEN MaxPerPage
                 ELSE perPage]

\* PaginationQuery.GetOffset
GetOffset(q) == (q.page - 1) * q.perPage

\* the completed matches
Completed == {m \in DOMAIN matches : matches[m].status = "completed"}

\* the row orders ORDER BY match_date asc can return
CompletedOrders_ascending ==
    {o \in Perms(Completed) :
        \A i \in 1..(Len(o) - 1) : matches[o[i]].date <= matches[o[i + 1]].date}

\* the row orders ORDER BY match_date desc can return: rows of one date in any order
CompletedOrders ==
    {o \in Perms(Completed) :
        \A i \in 1..(Len(o) - 1) : matches[o[i]].date >= matches[o[i + 1]].date}

\* matchRepository.FindCompletedMatches: OFFSET and LIMIT on the ordered rows
FindCompletedMatches(o, offset, limit) ==
    SubSeq(o, offset + 1, IF offset + limit < Len(o) THEN offset + limit ELSE Len(o))

\* matchRepository.CountCompletedMatches
CountCompletedMatches == Cardinality(Completed)

\* reportService.GetMatchReports; `o` is the order of the rows in the database
GetMatchReports(page, perPage, o) ==
    LET q == Sanitize(page, perPage)
        rows == FindCompletedMatches(o, GetOffset(q), q.perPage)
    IN  [err |-> "ok",
         items |-> [i \in 1..Len(rows) |->
                      [match |-> rows[i],
                       date |-> matches[rows[i]].date,
                       homeScore |-> matches[rows[i]].homeScore,
                       awayScore |-> matches[rows[i]].awayScore,
                       result |-> computeMatchResult(matches[rows[i]].homeScore,
                                                     matches[rows[i]].awayScore)]],
         total |-> CountCompletedMatches,
         page |-> q.page,
         perPage |-> q.perPage]

ReportReq(op, id, page, perPage) ==
    [op |-> op, id |-> id, page |-> page, perPage |-> perPage]

\* all players of Init, no match yet
InitReport ==
    /\ teams = [t \in TeamIds |-> [deleted |-> FALSE]]
    /\ players = [p \in PlayerIds |->
                    [team |-> TeamOfPlayer(p), jersey |-> 1, deleted |-> FALSE]]
    /\ matches = [m \in ReportMatchIds |-> NoMatch]
    /\ goals = <<>>
    /\ refreshTokens = NoTokens
    /\ pc = "idle"
    /\ req = NoReq
    /\ resp = NoResp

\* a CreateMatch request is served from its arrival to its response
ServeReportMatch ==
    /\ pc = "idle"
    /\ \E n \in ReportMatchIds : matches[n].status = "none"
    /\ \E home \in ReportTeamIds, away \in ReportTeamIds, date \in Dates :
          LET out == Outcome([NoReq EXCEPT !.op = "CreateMatch", !.home = home,
                                              !.away = away, !.date = date, !.time = 1])
          IN  /\ matches' = out.matches
              /\ goals' = out.goals
    /\ UNCHANGED <<teams, players, pc, req, resp>>
    /\ UNCHANGED refreshTokens

\* a SubmitResult or UpdateResult request is served from its arrival to its response
ServeReportResult ==
    /\ pc = "idle"
    /\ \E op \in {"SubmitResult", "UpdateResult"}, m \in ReportMatchIds,
          G \in ReportGoalLists :
          LET out == Outcome([NoReq EXCEPT !.op = op, !.id = m, !.goals = G])
          IN  /\ matches' = out.matches
              /\ goals' = out.goals
    /\ UNCHANGED <<teams, players, pc, req, resp>>
    /\ UNCHANGED refreshTokens

CallReportByID ==
    /\ pc = "idle"
    /\ \E id \in ReqReportMatchIds : req' = ReportReq("GetMatchReportByID", id, 0, 0)
    /\ pc' = "called"
    /\ resp' = NoResp
    /\ UNCHANGED <<teams, players, matches, goals>>
    /\ UNCHANGED refreshTokens

CallReports ==
    /\ pc = "idle"
    /\ \E page \in ReqPages, perPage \in ReqPerPages :
          req' = ReportReq("GetMatchReports", 0, page, perPage)
    /\ pc' = "called"
    /\ resp' = NoResp
    /\ UNCHANGED <<teams, players, matches, goals>>
    /\ UNCHANGED refreshTokens

HandleReportByID ==
    /\ pc = "called"
    /\ req.op = "GetMatchReportByID"
    /\ \E order \in MapOrders(req.id) : resp' = GetMatchReportByID(req.id, order)
    /\ pc' = "done"
    /\ UNCHANGED <<teams, players, matches, goals, req>>
    /\ UNCHANGED refreshTokens

HandleReports ==
    /\ pc = "called"
    /\ req.op = "GetMatchReports"
    /\ \E o \in CompletedOrders : resp' = GetMatchReports(req.page, req.perPage, o)
    /\ pc' = "done"
    /\ UNCHANGED <<teams, players, matches, goals, req>>
    /\ UNCHANGED refreshTokens

NextReport ==
    \/ ServeReportMatch
    \/ ServeReportResult
    \/ CallReportByID
    \/ CallReports
    \/ HandleReportByID
    \/ HandleReports
    \/ Respond

SpecReport == InitReport /\ [][NextReport]_vars

\* ---- vocabulary of the report properties ---------------------------------------
\* number of rows of s scored by player p
RECURSIVE CountScorer(_, _)
CountScorer(s, p) ==
    IF s = <<>> THEN 0
    ELSE (IF Head(s).player = p THEN 1 ELSE 0) + CountScorer(Tail(s), p)

\* number of the matches 1..n that are completed and won by team t
RECURSIVE WonUpTo(_, _)
WonUpTo(t, n) ==
    IF n = 0 THEN 0
    ELSE WonUpTo(t, n - 1) +
         (IF /\ matches[n].status = "completed"
             /\ \/ /\ matches[n].home = t
                   /\ computeMatchResult(matches[n].homeScore, matches[n].awayScore)
                        = "Home Win"
                \/ /\ matches[n].away = t
                   /\ computeMatchResult(matches[n].homeScore, matches[n].awayScore)
                        = "Away Win"
          THEN 1 ELSE 0)

ReportDone == pc = "done" /\ req.op = "GetMatchReportByID" /\ resp.err = "ok"

\* ---- C16 ------------------------------------------------------------------------
\* C16: in the report of a completed match the top scorer is absent exactly when
\* the match has no stored goal; otherwise its goal count is the greatest number
\* of the match's goals scored by one player, and the player it names scored
\* that many.
C16_TopScorer ==
    ReportDone =>
        LET rows == GoalsOf(goals, req.id)
        IN  /\ (resp.topScorer = NoScorer) <=> (Len(rows) = 0)
            /\ Len(rows) > 0 =>
                  /\ CountScorer(rows, resp.topScorer.player) = resp.topScorer.goals
                  /\ resp.topScorer.goals >= 1
                  /\ \A q \in ReqPlayerIds :
                        CountScorer(rows, q) <= resp.topScorer.goals

\* a report of a match with three goals, two by the top scorer and one by
\* another player
C16_Witness ==
    /\ ReportDone
    /\ Len(GoalsOf(goals, req.id)) = 3
    /\ resp.topScorer.goals = 2
    /\ \E q \in PlayerIds :
          q # resp.topScorer.player /\ CountScorer(GoalsOf(goals, req.id), q) = 1

\* ---- C17 ------------------------------------------------------------------------
\* C17: the win totals of a report are, for the home team and for the away team
\* of the reported match, the number of stored completed matches that the team
\* won as home team or as away team in the stored state of the request; draws
\* and scheduled matches count for neither team.
C17_CumulativeWins ==
    ReportDone =>
        /\ resp.homeWins = WonUpTo(matches[req.id].home, Len(matches))
        /\ resp.awayWins = WonUpTo(matches[req.id].away, Len(matches))
        /\ resp.homeWins + resp.awayWins <=
              Cardinality({m \in DOMAIN matches :
                  /\ matches[m].status = "completed"
                  /\ matches[m].homeScore # matches[m].awayScore})

\* the home team of the reported match has two wins, one of them as away team
\* of the other match
C17_Witness ==
    /\ ReportDone
    /\ resp.homeWins = 2
    /\ resp.awayWins = 0
    /\ \E m \in DOMAIN matches :
          /\ m # req.id
          /\ matches[m].away = matches[req.id].home
          /\ matches[m].awayScore > matches[m].homeScore

\* ---- C18 ------------------------------------------------------------------------
\* C18: GetMatchReportByID answers MatchNotFound when no match has the id and
\* NotCompleted when the match is scheduled; it returns a report only for a
\* completed match, and a failing request runs no win count.
C18_ReportErrors ==
    (pc = "done" /\ req.op = "GetMatchReportByID") =>
        /\ ~MatchFound(req.id) => resp.err = "MatchNotFound"
        /\ (MatchFound(req.id) /\ matches[req.id].status = "scheduled")
              => resp.err = "NotCompleted"
        /\ resp.err = "ok" => (MatchFound(req.id) /\ matches[req.id].status = "completed")
        /\ resp.err \in {"ok", "MatchNotFound", "NotCompleted"}
        /\ resp.err # "ok" => (resp.winQueries = 0 /\ resp.result = "none")
        /\ resp.err = "ok" => resp.winQueries = 2

\* NotCompleted was the answer for a scheduled match while another match is
\* completed and won
C18_Witness ==
    /\ pc = "done"
    /\ req.op = "GetMatchReportByID"
    /\ resp.err = "NotCompleted"
    /\ \E m \in DOMAIN matches :
          matches[m].status = "completed" /\ matches[m].homeScore > matches[m].awayScore

C22_FailedUpdateDropsGoals ==
    [][(pc = "called" /\ req.op = "UpdateResult" /\ Processes(req)
          /\ resp'.err \in ValidationErrs) =>
            /\ GoalsOf(goals', req.id) = <<>>
            /\ goals' = DeleteByMatchID(goals, req.id)
            /\ matches' = matches
            /\ matches'[req.id].status = "completed"]_vars

\* a rejected UpdateResult left a completed match with a score of two goals and
\* no stored goal
C22_Witness ==
    /\ pc = "done"
    /\ req.op = "UpdateResult"
    /\ resp.err \in ValidationErrs
    /\ matches[req.id].status = "completed"
    /\ matches[req.id].homeScore + matches[req.id].awayScore = 2
    /\ GoalsOf(goals, req.id) = <<>>


\* ---- two requests in flight: the steps of the match service ---------------------
\* the two goroutines serving requests at the same time
Workers == {"a", "b"}

\* goal lists of the requests in flight: empty, or one goal of a player for its team
ConcGoalLists ==
    {<<>>} \cup {<<[player |-> p, team |-> TeamOfPlayer(p), minute |-> 1]>> : p \in PlayerIds}

\* a request with the locals of its service method: the row FindByID returned
\* and the two counters of processResult
Call(op, id, home, away, G) ==
    [op |-> op, id |-> id, home |-> home, away |-> away, date |-> 1, time |-> 1,
     goals |-> G, match |-> NoMatch, homeScore |-> 0, awayScore |-> 0]

NoCall == Call("none", 0, 0, 0, <<>>)

\* what a worker keeps of the call it served before: the request and its answer
NoLast == [op |-> "none", id |-> 0, goals |-> <<>>, err |-> "none"]

\* one scheduled match between team 1 and team 2, no request in flight
InitConc ==
    /\ teams = [t \in TeamIds |-> [deleted |-> FALSE]]
    /\ players = [p \in PlayerIds |->
                    [team |-> TeamOfPlayer(p), jersey |-> 1, deleted |-> FALSE]]
    /\ matches = [m \in MatchIds |->
                    IF m = 1 THEN [home |-> 1, away |-> 2, date |-> 1, time |-> 1,
                                   homeScore |-> 0, awayScore |-> 0,
                                   status |-> "scheduled"]
                    ELSE NoMatch]
    /\ goals = <<>>
    /\ refreshTokens = NoTokens
    /\ pc = [w \in Workers |-> "idle"]
    /\ req = [w \in Workers |-> NoCall]
    /\ resp = [w \in Workers |-> [err |-> "none", served |-> 0, last |-> NoLast]]

\* the service method returns e
Return(w, e) ==
    /\ pc' = [pc EXCEPT ![w] = "done"]
    /\ resp' = [resp EXCEPT ![w].err = e]

\* a request arrives at worker w
Start(w) ==
    /\ pc[w] = "idle"
    /\ resp[w].served < MaxCalls
    /\ \/ \E op \in ResultOps, m \in MatchIds, G \in ConcGoalLists :
             req' = [req EXCEPT ![w] = Call(op, m, 0, 0, G)]
       \/ \E m \in MatchIds, away \in TeamIds :
             req' = [req EXCEPT ![w] = Call("UpdateMatch", m, 1, away, <<>>)]
    /\ pc' = [pc EXCEPT ![w] = "called"]
    /\ resp' = [resp EXCEPT ![w].err = "none"]
    /\ UNCHANGED <<teams, players, matches, goals>>
    /\ UNCHANGED refreshTokens

\* the row matchRepo.Update(match) writes for a result: the row read by
\* FindByID with the counters and status completed
ResultRow(match, v) ==
    [match EXCEPT !.homeScore = v.homeScore, !.awayScore = v.awayScore,
                  !.status = "completed"]

\* matchRepo.FindByID and the checks and computations on the row it returned,
\* up to the first write of the method
FindMatch(w) ==
    /\ pc[w] = "called"
    /\ LET r == req[w]
           match == matches[r.id]
           v == validateGoals(match, r.goals, 1, 0, 0)
       IN  IF ~MatchFound(r.id) THEN Return(w, "MatchNotFound") /\ req' = req
           ELSE IF r.op = "SubmitResult"
           THEN IF match.status = "completed"
                THEN Return(w, "AlreadyCompleted") /\ req' = req
                ELSE IF v.err # "ok" THEN Return(w, v.err) /\ req' = req
                ELSE /\ req' = [req EXCEPT ![w].match = match,
                                           ![w].homeScore = v.homeScore,
                                           ![w].awayScore = v.awayScore]
                     /\ pc' = [pc EXCEPT ![w] = "validated"]
                     /\ resp' = resp
           ELSE IF r.op = "UpdateResult"
           THEN IF match.status # "completed"
                THEN Return(w, "NotYetCompleted") /\ req' = req
                ELSE /\ req' = [req EXCEPT ![w].match = match]
                     /\ pc' = [pc EXCEPT ![w] = "found"]
                     /\ resp' = resp
           ELSE IF match.status = "completed"
                THEN Return(w, "MatchAlreadyCompleted") /\ req' = req
           ELSE IF r.home = r.away THEN Return(w, "InvalidTeams") /\ req' = req
           ELSE IF ~TeamFound(r.home) THEN Return(w, "HomeTeamNotFound") /\ req' = req
           ELSE IF ~TeamFound(r.away) THEN Return(w, "AwayTeamNotFound") /\ req' = req
           ELSE /\ req' = [req EXCEPT ![w].match =
                              [match EXCEPT !.home = r.home, !.away = r.away,
                                            !.date = r.date, !.time = r.time]]
                /\ pc' = [pc EXCEPT ![w] = "saving"]
                /\ resp' = resp
    /\ UNCHANGED <<teams, players, matches, goals>>
    /\ UNCHANGED refreshTokens

\* UpdateResult: goalRepo.DeleteByMatchID, then the validation loop of processResult
DeleteGoals(w) ==
    /\ pc[w] = "found"
    /\ goals' = DeleteByMatchID(goals, req[w].id)
    /\ LET r == req[w]
           v == validateGoals(r.match, r.goals, 1, 0, 0)
       IN  IF v.err # "ok" THEN Return(w, v.err) /\ req' = req
           ELSE /\ req' = [req EXCEPT ![w].homeScore = v.homeScore,
                                      ![w].awayScore = v.awayScore]
                /\ pc' = [pc EXCEPT ![w] = "validated"]
                /\ resp' = resp
    /\ UNCHANGED <<teams, players, matches>>
    /\ UNCHANGED refreshTokens

\* processResult: goalRepo.CreateBatch unless the list is empty
InsertGoals(w) ==
    /\ pc[w] = "validated"
    /\ goals' = IF Len(req[w].goals) > 0
                THEN CreateBatch(goals, GoalRows(req[w].id, req[w].goals))
                ELSE goals
    /\ pc' = [pc EXCEPT ![w] = "saving"]
    /\ UNCHANGED <<teams, players, matches, req, resp>>
    /\ UNCHANGED refreshTokens


\* matchRepository.Update: db.Save writes every column of the struct it is given
Save(stored, row, r) == row

\* matchRepo.Update(match) with the row the method holds
SaveMatch(w) ==
    /\ pc[w] = "saving"
    /\ LET r == req[w]
           row == IF r.op = "UpdateMatch" THEN r.match ELSE ResultRow(r.match, r)
       IN  matches' = [matches EXCEPT ![r.id] = Save(matches[r.id], row, r)]
    /\ Return(w, "ok")
    /\ UNCHANGED <<teams, players, goals, req>>
    /\ UNCHANGED refreshTokens

\* the response is written; the worker takes the next request
Reply(w) ==
    /\ pc[w] = "done"
    /\ pc' = [pc EXCEPT ![w] = "idle"]
    /\ req' = [req EXCEPT ![w] = NoCall]
    /\ resp' = [resp EXCEPT ![w] =
                  [err |-> "none", served |-> resp[w].served + 1,
                   last |-> [op |-> req[w].op, id |-> req[w].id,
                             goals |-> req[w].goals, err |-> resp[w].err]]]
    /\ UNCHANGED <<teams, players, matches, goals>>
    /\ UNCHANGED refreshTokens

NextConc ==
    \E w \in Workers :
        \/ Start(w)
        \/ FindMatch(w)
        \/ DeleteGoals(w)
        \/ InsertGoals(w)
        \/ SaveMatch(w)
        \/ Reply(w)

SpecConc == InitConc /\ [][NextConc]_vars

\* ---- one request at a time, with a storage failure ------------------------------
\* matchRepo.Update returns an error: the method logs it and returns
\* ErrInternal, the row is not written
FailSave(w) ==
    /\ pc[w] = "saving"
    /\ Return(w, "Internal")
    /\ UNCHANGED <<teams, players, matches, goals, req>>
    /\ UNCHANGED refreshTokens

NextFault ==
    \/ Start("a")
    \/ FindMatch("a")
    \/ DeleteGoals("a")
    \/ InsertGoals("a")
    \/ SaveMatch("a")
    \/ FailSave("a")
    \/ Reply("a")

SpecFault == InitConc /\ [][NextFault]_vars

\* ---- vocabulary of the properties of requests in flight ------------------------
\* both workers have returned ok from op on the same match
BothReturnedOk(op) ==
    /\ \A w \in Workers : pc[w] = "done" /\ req[w].op = op /\ resp[w].err = "ok"
    /\ req["a"].id = req["b"].id

\* the goal rows of the call worker w holds
BatchOf(w) == GoalRows(req[w].id, req[w].goals)

\* ---- C23 ------------------------------------------------------------------------
\* C23: when two UpdateResult calls on one completed match have both returned
\* ok, the stored goals of the match are the batch of one call or the batches
\* of both calls together, in either order, and the scores of the match row are
\* the counters of one of the two calls; the state with both batches stored
\* and the score of one call only is reached.
C23_InterleavedUpdates ==
    BothReturnedOk("UpdateResult") =>
        LET m == req["a"].id
        IN  /\ GoalsOf(goals, m) \in {BatchOf("a"), BatchOf("b"),
                                      BatchOf("a") \o BatchOf("b"),
                                      BatchOf("b") \o BatchOf("a")}
            /\ \E w \in Workers :
                  /\ matches[m].homeScore = req[w].homeScore
                  /\ matches[m].awayScore = req[w].awayScore

\* both batches, one goal each of different teams, are stored while the match
\* row counts one goal
C23_Witness ==
    /\ BothReturnedOk("UpdateResult")
    /\ Len(BatchOf("a")) = 1
    /\ Len(BatchOf("b")) = 1
    /\ BatchOf("a")[1].team # BatchOf("b")[1].team
    /\ GoalsOf(goals, req["a"].id) = BatchOf("a") \o BatchOf("b")
    /\ matches[req["a"].id].homeScore + matches[req["a"].id].awayScore = 1

\* ---- C24 ------------------------------------------------------------------------
\* C24: two SubmitResult calls on the same match that are in flight together
\* never both return ok, and once both have returned the stored goals of the
\* match are the batch of the call that succeeded.
C24_OneSubmitSucceeds ==
    (/\ \A w \in Workers : pc[w] = "done" /\ req[w].op = "SubmitResult"
     /\ req["a"].id = req["b"].id) =>
        /\ ~ \A w \in Workers : resp[w].err = "ok"
        /\ \A w \in Workers :
              resp[w].err = "ok" => GoalsOf(goals, req[w].id) = BatchOf(w)

\* ---- C25 ------------------------------------------------------------------------
\* C25: when UpdateMatch writes the match row and the stored match is already
\* completed, the match stays completed with the same scores, and every stored
\* goal of the match still has a team of the match.
C25_LateUpdateKeepsResult ==
    [][\A w \in Workers :
          (/\ pc[w] = "saving"
           /\ pc'[w] = "done"
           /\ req[w].op = "UpdateMatch"
           /\ matches[req[w].id].status = "completed") =>
              LET m == req[w].id
              IN  /\ matches'[m].status = "completed"
                  /\ matches'[m].homeScore = matches[m].homeScore
                  /\ matches'[m].awayScore = matches[m].awayScore
                  /\ \A i \in 1..Len(goals') :
                        goals'[i].match = m =>
                            goals'[i].team \in {matches'[m].home, matches'[m].away}]_vars

\* ---- C28 ------------------------------------------------------------------------
\* C28: whenever no request is in flight, a scheduled match has home_score 0,
\* away_score 0 and no stored goal.
C28_ScheduledHasNoResult ==
    (\A w \in Workers : pc[w] = "idle") =>
        \A m \in DOMAIN matches :
            matches[m].status = "scheduled" =>
                /\ matches[m].homeScore = 0
                /\ matches[m].awayScore = 0
                /\ GoalsOf(goals, m) = <<>>

\* ---- C29 ------------------------------------------------------------------------
\* C29: when a SubmitResult that failed with the internal error at the write of
\* the match row is sent again and returns ok, the stored goals of the match
\* are the rows of the submitted list, once.
C29_RetryStoresGoalsOnce ==
    (/\ pc["a"] = "done"
     /\ req["a"].op = "SubmitResult"
     /\ resp["a"].err = "ok"
     /\ resp["a"].last = [op |-> "SubmitResult", id |-> req["a"].id,
                          goals |-> req["a"].goals, err |-> "Internal"]) =>
        GoalsOf(goals, req["a"].id) = BatchOf("a")

\* ---- C26 ------------------------------------------------------------------------
\* the players with the highest number of stored goals in match m
TopScorers(m) ==
    LET counts == playerGoals(GoalsOf(goals, m))
    IN  {p \in DOMAIN counts : \A q \in DOMAIN counts : counts[q] <= counts[p]}

\* the players a report of match m can name, over the iteration orders of the map
NamedScorers(m) ==
    {GetMatchReportByID(m, order).topScorer.player : order \in MapOrders(m)}

\* C26: for a completed match with stored goals, the players its reports can
\* name as top scorer are exactly the players with the highest goal count: one
\* player when the maximum is unique, each of the tied players when it is not,
\* so that two reports of the unchanged match can differ; a report that was
\* answered names one of them.
C26_TopScorerTies ==
    /\ \A m \in Completed :
          GoalsOf(goals, m) # <<>> => NamedScorers(m) = TopScorers(m)
    /\ (pc = "done" /\ req.op = "GetMatchReportByID" /\ resp.err = "ok"
          /\ GoalsOf(goals, req.id) # <<>>) =>
             resp.topScorer.player \in TopScorers(req.id)

\* a report of a match in which two players scored once each was answered with
\* the player the ascending order would not give
C26_Witness ==
    /\ pc = "done"
    /\ req.op = "GetMatchReportByID"
    /\ resp.err = "ok"
    /\ Cardinality(TopScorers(req.id)) = 2
    /\ Len(GoalsOf(goals, req.id)) = 2
    /\ \E p \in TopScorers(req.id) : p < resp.topScorer.player

\* ---- reports after soft deletion ----------------------------------------------
\* The name of team t is written t and the name of player p is written p; 0 is
\* the empty string of a reference that was not loaded.

\* Preload("HomeTeam") / Preload("AwayTeam") / Preload("Goals.Team"): the
\* association query runs in the default scope, rows with deleted_at set are
\* not loaded and the pointer stays nil
PreloadTeam(t) == IF TeamFound(t) THEN t ELSE 0

\* Preload("Goals.Player")
PreloadPlayer(p) == IF PlayerFound(p) THEN p ELSE 0

NoNames(e) == [err |-> e, homeTeam |-> 0, awayTeam |-> 0, goals |-> <<>>]

\* GetMatchReportByID: the home team, the away team and the goal list of the
\* report
ReportNames(m) ==
    IF ~MatchFound(m) THEN NoNames("MatchNotFound")
    ELSE IF matches[m].status # "completed" THEN NoNames("NotCompleted")
    ELSE LET rows == GoalsOf(goals, m)
         IN  [err |-> "ok",
              homeTeam |-> PreloadTeam(matches[m].home),
              awayTeam |-> PreloadTeam(matches[m].away),
              goals |-> [i \in 1..Len(rows) |->
                           [playerName |-> PreloadPlayer(rows[i].player),
                            teamName |-> PreloadTeam(rows[i].team),
                            minute |-> rows[i].minute]]]

\* teamService.Delete
TeamDelete(t) ==
    IF ~TeamFound(t) THEN [err |-> "TeamNotFound", teams |-> teams]
    ELSE [err |-> "ok", teams |-> [teams EXCEPT ![t].deleted = TRUE]]

\* match 1 between team 1 and team 2 was completed 1-1 with a goal of player 1
\* for team 1 and a goal of player 2 for team 2
InitDeleted ==
    /\ teams = [t \in TeamIds |-> [deleted |-> FALSE]]
    /\ players = [p \in PlayerIds |->
                    [team |-> TeamOfPlayer(p), jersey |-> 1, deleted |-> FALSE]]
    /\ matches = [m \in MatchIds |->
                    IF m = 1 THEN [home |-> 1, away |-> 2, date |-> 1, time |-> 1,
                                   homeScore |-> 1, awayScore |-> 1,
                                   status |-> "completed"]
                    ELSE NoMatch]
    /\ goals = <<[player |-> 1, team |-> 1, minute |-> 1, match |-> 1],
                 [player |-> 2, team |-> 2, minute |-> 2, match |-> 1]>>
    /\ refreshTokens = NoTokens
    /\ pc = "idle"
    /\ req = NoReq
    /\ resp = NoResp

\* a DELETE /teams/:id request is served from its arrival to its response
ServeTeamDelete ==
    /\ pc = "idle"
    /\ \E t \in ReqTeamIds : teams' = TeamDelete(t).teams
    /\ UNCHANGED <<players, matches, goals, refreshTokens, pc, req, resp>>

\* a DELETE /players/:id request is served from its arrival to its response
ServePlayerDelete ==
    /\ pc = "idle"
    /\ \E p \in ReqPlayerIds : players' = PlayerDelete(p).players
    /\ UNCHANGED <<teams, matches, goals, refreshTokens, pc, req, resp>>

CallReportNames ==
    /\ pc = "idle"
    /\ \E id \in MatchIds \cup {0} : req' = ReportReq("GetMatchReportByID", id, 0, 0)
    /\ pc' = "called"
    /\ resp' = NoResp
    /\ UNCHANGED <<teams, players, matches, goals, refreshTokens>>

HandleReportNames ==
    /\ pc = "called"
    /\ resp' = ReportNames(req.id)
    /\ pc' = "done"
    /\ UNCHANGED <<teams, players, matches, goals, refreshTokens, req>>

NextDeleted ==
    \/ ServeTeamDelete
    \/ ServePlayerDelete
    \/ CallReportNames
    \/ HandleReportNames
    \/ Respond

SpecDeleted == InitDeleted /\ [][NextDeleted]_vars

\* ---- C27 ------------------------------------------------------------------------
\* C27: whatever teams and players were deleted, the report of a completed
\* match gives its home team, its away team and, for each stored goal, the
\* name of the goal's player and of the goal's team; none of them is empty.
C27_DeletedStillNamed ==
    (pc = "done" /\ req.op = "GetMatchReportByID" /\ resp.err = "ok") =>
        LET rows == GoalsOf(goals, req.id)
        IN  /\ resp.homeTeam = matches[req.id].home
            /\ resp.awayTeam = matches[req.id].away
            /\ Len(resp.goals) = Len(rows)
            /\ \A i \in 1..Len(rows) :
                  /\ resp.goals[i].playerName = rows[i].player
                  /\ resp.goals[i].teamName = rows[i].team

\* ---- authentication service -------------------------------------------------------
\* token strings a client can present; 0 is a string that was never issued
ReqTokens == 0..MaxTokens

\* refreshTokenRepository.FindByToken
FindByToken(store, t) == t \in TokenIds /\ store[t] \in {"stored", "expired"}

\* model.RefreshToken.IsExpired
IsExpired(store, t) == store[t] = "expired"

DeleteByToken_keepsRow(store, t) == store

\* refreshTokenRepository.DeleteByToken: hard delete of the rows with the token,
\* no error when there is none
DeleteByToken(store, t) ==
    [u \in TokenIds |-> IF u = t /\ store[u] \in {"stored", "expired"}
                        THEN "deleted" ELSE store[u]]

\* some string is left to generate
CanGenerate(store) == \E t \in TokenIds : store[t] = "none"

\* jwtService.GenerateRefreshToken: a UUIDv7 string, never one generated before
GenerateRefreshToken(store) ==
    CHOOSE t \in TokenIds : store[t] = "none" /\ \A u \in 1..(t - 1) : store[u] # "none"

\* refreshTokenRepository.Create
TokenCreate(store, t) == [store EXCEPT ![t] = "stored"]

AuthResult(store, e, t) == [store |-> store, err |-> e, token |-> t]

\* authService.Login; valid: the username exists and the password matches
Login(store, valid) ==
    IF ~valid THEN AuthResult(store, "InvalidCredentials", 0)
    ELSE LET t == GenerateRefreshToken(store)
         IN  AuthResult(TokenCreate(store, t), "ok", t)

\* authService.RefreshToken
RefreshToken(store, old) ==
    IF ~FindByToken(store, old) THEN AuthResult(store, "InvalidRefreshToken", 0)
    ELSE IF IsExpired(store, old)
    THEN AuthResult(DeleteByToken(store, old), "RefreshTokenExpired", 0)
    ELSE LET removed == DeleteByToken(store, old)
             t == GenerateRefreshToken(removed)
         IN  AuthResult(TokenCreate(removed, t), "ok", t)

\* authService.Logout
Logout(store, t) == AuthResult(DeleteByToken(store, t), "ok", 0)

AuthReq(op, t, valid) == [op |-> op, token |-> t, valid |-> valid]

InitAuth ==
    /\ teams = [t \in TeamIds |-> [deleted |-> FALSE]]
    /\ players = <<>>
    /\ matches = [m \in MatchIds |-> NoMatch]
    /\ goals = <<>>
    /\ refreshTokens = NoTokens
    /\ pc = "idle"
    /\ req = NoReq
    /\ resp = NoResp

CallLogin ==
    /\ pc = "idle"
    /\ CanGenerate(refreshTokens)
    /\ \E valid \in BOOLEAN : req' = AuthReq("Login", 0, valid)
    /\ pc' = "called"
    /\ UNCHANGED <<teams, players, matches, goals, refreshTokens, resp>>

CallRefresh ==
    /\ pc = "idle"
    /\ CanGenerate(refreshTokens)
    /\ \E t \in ReqTokens : req' = AuthReq("RefreshToken", t, TRUE)
    /\ pc' = "called"
    /\ UNCHANGED <<teams, players, matches, goals, refreshTokens, resp>>

CallLogout ==
    /\ pc = "idle"
    /\ \E t \in ReqTokens : req' = AuthReq("Logout", t, TRUE)
    /\ pc' = "called"
    /\ UNCHANGED <<teams, players, matches, goals, refreshTokens, resp>>

\* time passes the ExpiresAt of a stored token
Expire ==
    /\ \E t \in TokenIds :
          /\ refreshTokens[t] = "stored"
          /\ refreshTokens' = [refreshTokens EXCEPT ![t] = "expired"]
    /\ UNCHANGED <<teams, players, matches, goals, pc, req, resp>>

\* AuthHandler.Login / Refresh / Logout
HandleAuth ==
    /\ pc = "called"
    /\ LET out == CASE req.op = "Login" -> Login(refreshTokens, req.valid)
                    [] req.op = "RefreshToken" -> RefreshToken(refreshTokens, req.token)
                    [] req.op = "Logout" -> Logout(refreshTokens, req.token)
       IN  /\ refreshTokens' = out.store
           /\ resp' = [err |-> out.err, token |-> out.token]
    /\ pc' = "done"
    /\ UNCHANGED <<teams, players, matches, goals, req>>

NextAuth ==
    \/ CallLogin
    \/ CallRefresh
    \/ CallLogout
    \/ Expire
    \/ HandleAuth
    \/ Respond

SpecAuth == InitAuth /\ [][NextAuth]_vars

\* ---- C21 ------------------------------------------------------------------------
\* C21: with the auth requests handled one at a time, a token that was
\* exchanged by a successful RefreshToken or passed to Logout is no longer in
\* the store and never comes back; a RefreshToken with a token that is not in
\* the store answers Invalid refresh token, issues nothing and changes nothing;
\* a successful RefreshToken removes the presented token and stores exactly one
\* token, a new one, leaving every other row as it was.
C21_RotatedTokenIsDead ==
    [][/\ \A t \in TokenIds :
             refreshTokens[t] = "deleted" => refreshTokens'[t] = "deleted"
       /\ (pc = "called" /\ pc' = "done" /\ req.op = "Logout") =>
             ~FindByToken(refreshTokens', req.token)
       /\ (pc = "called" /\ pc' = "done" /\ req.op = "RefreshToken") =>
             /\ ~FindByToken(refreshTokens, req.token) =>
                   /\ resp'.err = "InvalidRefreshToken"
                   /\ resp'.token = 0
                   /\ refreshTokens' = refreshTokens
             /\ resp'.err = "ok" =>
                   /\ refreshTokens[req.token] = "stored"
                   /\ refreshTokens'[req.token] = "deleted"
                   /\ resp'.token \in TokenIds \ {req.token}
                   /\ refreshTokens[resp'.token] = "none"
                   /\ refreshTokens'[resp'.token] = "stored"
                   /\ \A u \in TokenIds \ {req.token, resp'.token} :
                         refreshTokens'[u] = refreshTokens[u]
             /\ resp'.err # "ok" => resp'.token = 0]_vars

\* token 1 was exchanged for token 2, and a later RefreshToken with token 1 was
\* answered Invalid refresh token
C21_Witness ==
    /\ pc = "done"
    /\ req.op = "RefreshToken"
    /\ req.token = 1
    /\ resp.err = "InvalidRefreshToken"
    /\ refreshTokens = [t \in TokenIds |->
                          IF t = 1 THEN "deleted" ELSE IF t = 2 THEN "stored" ELSE "none"]

\* ---- authentication service, requests in parallel -------------------------------
\* Each worker runs RefreshToken or Logout one repository call at a time; the
\* table is shared and nothing orders the calls of different workers.
NoAuthCall == AuthReq("none", 0, TRUE)

\* token 1 was issued by an earlier Login
InitAuthConc ==
    /\ teams = [t \in TeamIds |-> [deleted |-> FALSE]]
    /\ players = <<>>
    /\ matches = [m \in MatchIds |-> NoMatch]
    /\ goals = <<>>
    /\ refreshTokens = TokenCreate(NoTokens, 1)
    /\ pc = [w \in Workers |-> "idle"]
    /\ req = [w \in Workers |-> NoAuthCall]
    /\ resp = [w \in Workers |-> [err |-> "none", token |-> 0, served |-> 0]]

ReturnAuth(w, e, t) ==
    /\ pc' = [pc EXCEPT ![w] = "done"]
    /\ resp' = [resp EXCEPT ![w].err = e, ![w].token = t]

\* the RefreshToken calls that may still generate a token
Exchanging == {w \in Workers : req[w].op = "RefreshToken" /\ pc[w] \in {"called", "found", "deleted"}}

StartAuth(w) ==
    /\ pc[w] = "idle"
    /\ resp[w].served < MaxCalls
    /\ \/ /\ Cardinality({t \in TokenIds : refreshTokens[t] = "none"})
                > Cardinality(Exchanging)
          /\ \E t \in ReqTokens :
                req' = [req EXCEPT ![w] = AuthReq("RefreshToken", t, TRUE)]
       \/ \E t \in ReqTokens : req' = [req EXCEPT ![w] = AuthReq("Logout", t, TRUE)]
    /\ pc' = [pc EXCEPT ![w] = "called"]
    /\ resp' = [resp EXCEPT ![w].err = "none", ![w].token = 0]
    /\ UNCHANGED <<teams, players, matches, goals, refreshTokens>>

\* RefreshToken: refreshTokenRepo.FindByToken and the expiry check;
\* Logout: refreshTokenRepo.DeleteByToken
FindToken(w) ==
    /\ pc[w] = "called"
    /\ LET t == req[w].token
       IN  IF req[w].op = "Logout"
           THEN /\ refreshTokens' = DeleteByToken(refreshTokens, t)
                /\ ReturnAuth(w, "ok", 0)
           ELSE IF ~FindByToken(refreshTokens, t)
           THEN /\ ReturnAuth(w, "InvalidRefreshToken", 0)
                /\ UNCHANGED refreshTokens
           ELSE IF IsExpired(refreshTokens, t)
           THEN /\ refreshTokens' = DeleteByToken(refreshTokens, t)
                /\ ReturnAuth(w, "RefreshTokenExpired", 0)
           ELSE /\ pc' = [pc EXCEPT ![w] = "found"]
                /\ UNCHANGED <<refreshTokens, resp>>
    /\ UNCHANGED <<teams, players, matches, goals, req>>

\* RefreshToken: refreshTokenRepo.DeleteByToken of the old token
DeleteToken(w) ==
    /\ pc[w] = "found"
    /\ refreshTokens' = DeleteByToken(refreshTokens, req[w].token)
    /\ pc' = [pc EXCEPT ![w] = "deleted"]
    /\ UNCHANGED <<teams, players, matches, goals, req, resp>>

\* RefreshToken: GenerateRefreshToken and refreshTokenRepo.Create, then the pair
\* is returned
CreateToken(w) ==
    /\ pc[w] = "deleted"
    /\ LET t == GenerateRefreshToken(refreshTokens)
       IN  /\ refreshTokens' = TokenCreate(refreshTokens, t)
           /\ ReturnAuth(w, "ok", t)
    /\ UNCHANGED <<teams, players, matches, goals, req>>

ReplyAuth(w) ==
    /\ pc[w] = "done"
    /\ pc' = [pc EXCEPT ![w] = "idle"]
    /\ resp' = [resp EXCEPT ![w].served = @ + 1]
    /\ UNCHANGED <<teams, players, matches, goals, refreshTokens, req>>

NextAuthConc ==
    \E w \in Workers :
        \/ StartAuth(w)
        \/ FindToken(w)
        \/ DeleteToken(w)
        \/ CreateToken(w)
        \/ ReplyAuth(w)

SpecAuthConc == InitAuthConc /\ [][NextAuthConc]_vars

\* ---- C30 ------------------------------------------------------------------------
\* C30: two RefreshToken calls that presented the same token never both return
\* a new token pair.
C30_ExchangedOnce ==
    ~ /\ \A w \in Workers :
            /\ pc[w] = "done"
            /\ req[w].op = "RefreshToken"
            /\ resp[w].err = "ok"
      /\ req["a"].token = req["b"].token
====
